---- MODULE Spec2Model ----
(***************************************************************************)
(* Model of the stock correlation utilities (utils/stockUtils) and of the  *)
(* matrix computed by the CorrelationHeatmap component.                    *)
(*                                                                         *)
(* A TypeScript `number` is an IEEE-754 binary64 value.  The arithmetic of *)
(* the source (+, -, *, /, Math.sqrt) is modelled bit-exactly: a finite    *)
(* number is a record [neg, man, exp] standing for (-1)^neg * man * 2^exp  *)
(* whose significand man is a natural number of exactly 53 bits (or zero), *)
(* and every operation rounds its exact result to nearest, ties to even.   *)
(* Significands do not fit TLC's integers, so a natural number is kept as  *)
(* a little-endian sequence of base-2^15 limbs.  The prices of the model   *)
(* are of moderate magnitude, so exponents stay far inside the binary64    *)
(* range and neither overflow nor subnormal results are modelled; the two  *)
(* zeros are identified, as === identifies them.                           *)
(***************************************************************************)
EXTENDS Integers, Sequences, FiniteSets, TLC

VARIABLES
  keys,         \* Object.keys(stockData): the tickers in insertion order
  stockData,    \* the series of each ticker
  processed,    \* processStockData(stockData) has been called
  result,       \* its outcome: the matrix returned, or the exception thrown
  rendered,     \* CorrelationHeatmap has computed its correlationMatrix memo
  heatmap,      \* the value of that memo
  xs,           \* the arguments of a call of calculateCorrelation
  ys,
  called,       \* calculateCorrelation(xs, ys) has returned
  corr,         \* the value it returned
  swapped,      \* calculateCorrelation(ys, xs) has returned
  corrSwapped,  \* the value it returned
  values,       \* the prices a StockPage renders
  computed,     \* which of its statistics the render has computed
  average,      \* averagePrice
  deviation,    \* standardDeviation
  lag,          \* the lag-1 correlation and the slices it is computed from
  series1,      \* the arguments of a call of alignPricesByTimestamp
  series2,
  aligned,      \* alignPricesByTimestamp(series1, series2) has been called
  alignment,    \* its outcome: the pairs returned, or the exception thrown
  fetchArgs,    \* the ticker and the minutes of a call of fetchStockPrices
  fetchNow,     \* the time of the call
  response,     \* how its HTTP request ended
  fetched,      \* the series the call returned
  routeTicker,  \* StockPage: the ticker of the route
  pageRange,    \* its timeRange state
  pageData,     \* its stockData state
  pageLoading,  \* its loading state
  pageError,    \* its error state
  effects,      \* the runs of its effect: the closure of each with its isMounted
  inFlight,     \* per run of the effect, the calls of loadStockData that await
  completed,    \* the last call of loadStockData that came back from its await
  corrTickers,  \* CorrelationPage: its tickers state
  corrRange,    \* its timeRange state
  corrData,     \* its stockData state
  corrLoading,  \* its loading state
  corrError,    \* its error state
  ranWith,      \* the tickers and the time range its effect last ran with
  requests,     \* the calls of its loadStockData that await fetchAllStocks
  issued,       \* how many such calls there have been
  dataOf,       \* the tickers and the time range of the call that set stockData
  added         \* the tickers the user added that have been in the list since

vars == <<keys, stockData, processed, result, rendered, heatmap,
          xs, ys, called, corr, swapped, corrSwapped,
          values, computed, average, deviation, lag,
          series1, series2, aligned, alignment,
          fetchArgs, fetchNow, response, fetched,
          routeTicker, pageRange, pageData, pageLoading, pageError,
          effects, inFlight, completed,
          corrTickers, corrRange, corrData, corrLoading, corrError,
          ranWith, requests, issued, dataOf, added>>

(***************************************************************************)
(* Natural numbers as limb sequences                                       *)
(***************************************************************************)
\* limbs are base 2^15, so that a product of two limbs plus carries fits a TLC integer
Base == 2^15

Min(a, b) == IF a <= b THEN a ELSE b

Max(a, b) == IF a >= b THEN a ELSE b

Top(S) == CHOOSE m \in S : \A i \in S : i <= m

\* limb i of a, 0 beyond its length
Limb(a, i) == IF 1 <= i /\ i <= Len(a) THEN a[i] ELSE 0

\* a without its leading zero limbs
BNorm(a) ==
  LET nz == {i \in 1..Len(a) : a[i] # 0}
  IN  IF nz = {} THEN <<>> ELSE SubSeq(a, 1, Top(nz))

BFromInt(n) ==
  IF n = 0 THEN <<>>
  ELSE IF n < Base THEN <<n>>
  ELSE <<n % Base, n \div Base>>

\* the carry into limb i of a sum whose limb sums are s, with carry c into limb 1:
\* some lower limb generates a carry and every limb in between passes it on
Carry(s, c, i) ==
  \E j \in 0..(i - 1) :
     /\ IF j = 0 THEN c = 1 ELSE s[j] >= Base
     /\ \A k \in (j + 1)..(i - 1) : s[k] = Base - 1

\* a + b + c for a carry c in {0, 1}
BAddC(a, b, c) ==
  LET n == Max(Len(a), Len(b))
      s == [i \in 1..n |-> Limb(a, i) + Limb(b, i)]
  IN  BNorm([i \in 1..(n + 1) |->
              IF i <= n THEN (s[i] + (IF Carry(s, c, i) THEN 1 ELSE 0)) % Base
              ELSE IF Carry(s, c, i) THEN 1 ELSE 0])

BAdd(a, b) == BAddC(a, b, 0)

\* the borrow from limb i of a difference whose limb differences are d
Borrow(d, i) ==
  \E j \in 1..(i - 1) : d[j] < 0 /\ \A k \in (j + 1)..(i - 1) : d[k] = 0

\* a - b for a >= b
BSub(a, b) ==
  LET d == [i \in 1..Len(a) |-> a[i] - Limb(b, i)]
  IN  BNorm([i \in 1..Len(a) |->
              (d[i] - (IF Borrow(d, i) THEN 1 ELSE 0) + Base) % Base])

\* -1, 0, 1 as a < b, a = b, a > b (both normalised)
BCmp(a, b) ==
  IF Len(a) < Len(b) THEN -1
  ELSE IF Len(a) > Len(b) THEN 1
  ELSE LET diff == {i \in 1..Len(a) : a[i] # b[i]}
       IN  IF diff = {} THEN 0
           ELSE IF a[Top(diff)] < b[Top(diff)] THEN -1 ELSE 1

\* a * d for one limb d
BMulLimb(a, d) ==
  LET p == [i \in 1..Len(a) |-> a[i] * d]
  IN  BAdd([i \in 1..Len(a) |-> p[i] % Base],
           [i \in 1..(Len(a) + 1) |-> IF i = 1 THEN 0 ELSE p[i - 1] \div Base])

\* a * b for b of at most 4 limbs (60 bits): column k collects the low halves of
\* the limb products a[i] * b[j] with i + j = k + 1 and the high halves of those
\* with i + j = k, and the columns are then carried over
BMul(a, b) ==
  LET P(i, j) == Limb(a, i) * Limb(b, j)
      col == [k \in 1..(Len(a) + Len(b)) |->
                (P(k, 1) % Base) + (P(k - 1, 2) % Base)
              + (P(k - 2, 3) % Base) + (P(k - 3, 4) % Base)
              + (P(k - 1, 1) \div Base) + (P(k - 2, 2) \div Base)
              + (P(k - 3, 3) \div Base) + (P(k - 4, 4) \div Base)]
  IN  BAdd([k \in 1..(Len(a) + Len(b)) |-> col[k] % Base],
           [k \in 1..(Len(a) + Len(b) + 1) |-> IF k = 1 THEN 0 ELSE col[k - 1] \div Base])

\* the number of bits of a (normalised)
BitLen(a) ==
  IF a = <<>> THEN 0
  ELSE 15 * (Len(a) - 1)
       + (CHOOSE k \in 1..15 : 2^(k - 1) <= a[Len(a)] /\ a[Len(a)] < 2^k)

\* a * 2^k
BShl(a, k) ==
  LET q == k \div 15
      p == 2^(k % 15)
  IN  BNorm([i \in 1..(Len(a) + q + 1) |->
              ((Limb(a, i - q) * p) % Base) + ((Limb(a, i - q - 1) * p) \div Base)])

\* floor(a / 2^k)
BShr(a, k) ==
  LET q == k \div 15
      p == 2^(k % 15)
  IN  IF q >= Len(a) THEN <<>>
      ELSE BNorm([i \in 1..(Len(a) - q) |->
                   (Limb(a, i + q) \div p) + ((Limb(a, i + q + 1) % p) * (Base \div p))])

BIsOdd(a) == a # <<>> /\ a[1] % 2 = 1

\* the largest q' <= q with q' * D <= R, and what it leaves of R, for P = q * D
RECURSIVE DigitFrom(_, _, _, _)
DigitFrom(R, D, q, P) ==
  IF BCmp(P, R) <= 0 THEN [q |-> q, r |-> BSub(R, P)]
  ELSE DigitFrom(R, D, q - 1, BSub(P, D))

\* the next digit of a long division by D: floor(R / D) for R < D * Base, found
\* downwards from the estimate the two top limbs of R give
Digit(R, D) ==
  LET qhat == Min(Base - 1,
                  (Limb(R, Len(D) + 1) * Base + Limb(R, Len(D))) \div D[Len(D)])
  IN  DigitFrom(R, D, qhat, BMulLimb(D, qhat))

\* schoolbook long division of N by D, the limbs of N above limb i being divided
\* already with remainder R < D and quotient Q
RECURSIVE LongDivFrom(_, _, _, _, _)
RECURSIVE LongDivPut(_, _, _, _, _)
LongDivFrom(N, D, i, R, Q) ==
  IF i = 0 THEN [q |-> Q, r |-> R]
  ELSE LongDivPut(N, D, i, Digit(BNorm(<<N[i]>> \o R), D), Q)

\* the digit found for limb i put in front of the quotient
LongDivPut(N, D, i, fix, Q) ==
  IF fix.q = 0 /\ Q = <<>> THEN LongDivFrom(N, D, i - 1, fix.r, Q)
  ELSE LongDivFrom(N, D, i - 1, fix.r, <<fix.q>> \o Q)

\* [q |-> floor(N / D), r |-> N mod D] for Len(N) >= Len(D)
LongDiv(N, D) ==
  LongDivFrom(N, D, Len(N) - Len(D) + 1,
              BNorm(SubSeq(N, Len(N) - Len(D) + 2, Len(N))), <<>>)

\* q with one more bit below it that is set when q is not exact
Sticky(q, exact) == BAddC(q, q, IF exact THEN 0 ELSE 1)

(***************************************************************************)
(* The numbers of the source: binary64 values and their operations         *)
(***************************************************************************)
\* significand width of a TypeScript number (IEEE-754 binary64)
Precision == 53

FZero == [neg |-> FALSE, man |-> <<>>, exp |-> 0]

IsZero(a) == a.man = <<>>

\* Infinity, -Infinity or NaN: what a division by zero gives
NotFinite == [neg |-> FALSE, man |-> <<>>, exp |-> 1]

\* a significand of 53 bits, or of 54 when rounding up has carried
Pack(neg, M, e) ==
  IF BitLen(M) > Precision THEN [neg |-> neg, man |-> BShr(M, 1), exp |-> e + 1]
  ELSE [neg |-> neg, man |-> M, exp |-> e]

\* M without its k lowest bits, rounded to nearest, ties to even: t is M without
\* k - 1 bits, so that its lowest bit is the first bit cut and the next the last kept
RoundCut(neg, M, e, k, t) ==
  IF t[1] % 2 = 1 /\ ((t[1] \div 2) % 2 = 1 \/ BShl(t, k - 1) # M)
  THEN Pack(neg, BAdd(BShr(t, 1), <<1>>), e + k)
  ELSE [neg |-> neg, man |-> BShr(t, 1), exp |-> e + k]

\* M of L bits brought to 53 bits
RoundBits(neg, M, e, L) ==
  IF L <= Precision
  THEN [neg |-> neg, man |-> BShl(M, Precision - L), exp |-> e - (Precision - L)]
  ELSE RoundCut(neg, M, e, L - Precision, BShr(M, L - Precision - 1))

\* (-1)^neg * M * 2^e rounded to nearest, ties to even
Round(neg, M, e) ==
  IF M = <<>> THEN FZero ELSE RoundBits(neg, M, e, BitLen(M))

\* the number denoted by an integer literal or an array length
FromInt(n) == Round(n < 0, BFromInt(IF n < 0 THEN -n ELSE n), 0)

FNeg(a) == IF IsZero(a) THEN a ELSE [a EXCEPT !.neg = ~a.neg]

\* (-1)^hneg * H * 2^lo.exp + lo
AddShifted(hneg, H, lo) ==
  Round(IF BCmp(H, lo.man) >= 0 THEN hneg ELSE lo.neg,
        IF hneg = lo.neg THEN BAdd(H, lo.man)
        ELSE IF BCmp(H, lo.man) >= 0 THEN BSub(H, lo.man)
        ELSE BSub(lo.man, H),
        lo.exp)

\* hi + lo for hi.exp >= lo.exp, both nonzero: lo is below half an ulp of hi when
\* the exponents are more than 64 apart
AddAligned(hi, lo) ==
  IF hi.exp - lo.exp > 64 THEN hi
  ELSE AddShifted(hi.neg, BShl(hi.man, hi.exp - lo.exp), lo)

\* a + b
FAdd(a, b) ==
  IF IsZero(a) THEN b
  ELSE IF IsZero(b) THEN a
  ELSE AddAligned(IF a.exp >= b.exp THEN a ELSE b, IF a.exp >= b.exp THEN b ELSE a)

\* a - b
FSub(a, b) == FAdd(a, FNeg(b))

\* a * b
FMul(a, b) ==
  IF IsZero(a) \/ IsZero(b) THEN FZero
  ELSE Round(a.neg # b.neg, BMul(a.man, b.man), a.exp + b.exp)

\* the quotient qr of two significands rounded
DivRound(neg, qr, e) == Round(neg, Sticky(qr.q, qr.r = <<>>), e)

\* a / b: the quotient of the significands to 60 bits and more, by long
\* division, with one more bit that tells whether a remainder is left
FDiv(a, b) ==
  IF IsZero(b) THEN NotFinite
  ELSE IF IsZero(a) THEN FZero
  ELSE DivRound(a.neg # b.neg,
                LongDiv(BShl(a.man, 60 - Precision + 60), BShl(b.man, 60 - Precision)),
                a.exp - b.exp - 61)

\* floor(sqrt(t)) for 0 < t < 2^30, by Newton's iteration from x >= floor(sqrt(t))
RECURSIVE IntSqrtFrom(_, _)
IntSqrtFrom(t, x) ==
  IF t \div x >= x THEN x ELSE IntSqrtFrom(t, (x + t \div x) \div 2)

\* the next digit of a square root, after the root so far, r2 being twice it, which
\* left rem with the next two limbs of the radicand brought down: the largest
\* d' <= d with (r2 * Base + d') * d' <= rem
RECURSIVE SqrtDigitFrom(_, _, _)
RECURSIVE SqrtDigitTry(_, _, _, _)
SqrtDigitFrom(r2, rem, d) == SqrtDigitTry(r2, rem, d, BMulLimb(<<d>> \o r2, d))

SqrtDigitTry(r2, rem, d, sq) ==
  IF BCmp(sq, rem) <= 0 THEN [d |-> d, rem |-> BSub(rem, sq)]
  ELSE SqrtDigitFrom(r2, rem, d - 1)

\* the digit after the root r, found downwards from the estimate rem / (2 * r * Base)
SqrtDigit(r, rem) == SqrtDigitFrom(BAdd(r, r), rem, Digit(BShr(rem, 16), r).q)

\* schoolbook square root of N, two limbs of N for a digit of the root: the limbs
\* above limb i have root r and remainder rem
RECURSIVE SqrtFrom(_, _, _, _)
RECURSIVE SqrtPut(_, _, _, _)
SqrtFrom(N, i, r, rem) ==
  IF i = 0 THEN [root |-> r, rem |-> rem]
  ELSE SqrtPut(N, i, r, SqrtDigit(r, BNorm(<<N[i - 1], N[i]>> \o rem)))

\* the digit found for the limbs i - 1, i put in front of the root
SqrtPut(N, i, r, next) ==
  IF next.rem = <<>> THEN SqrtFrom(N, i - 2, <<next.d>> \o r, <<>>)
  ELSE SqrtFrom(N, i - 2, <<next.d>> \o r, next.rem)

\* [root |-> floor(sqrt(N)), rem |-> N - root^2] for N of 8 limbs, 2^118 <= N
BigSqrt(N) ==
  LET r1 == IntSqrtFrom(N[8] * Base + N[7], Base)
  IN  SqrtFrom(N, 6, <<r1>>, BFromInt(N[8] * Base + N[7] - r1 * r1))

\* the root sr of a significand rounded
SqrtRound(sr, e) == Round(FALSE, Sticky(sr.root, sr.rem = <<>>), e)

\* Math.sqrt(a) for a >= 0: the root of the significand to 60 bits, with one more
\* bit that tells whether it is inexact
FSqrt(a) ==
  IF IsZero(a) THEN FZero
  ELSE SqrtRound(BigSqrt(BShl(IF a.exp % 2 = 1 THEN BAdd(a.man, a.man) ELSE a.man, 66)),
                 (a.exp - (a.exp % 2) - 66) \div 2 - 1)

\* -1, 0, 1 as a < b, a = b, a > b
FCmpAbs(a, b) ==
  IF IsZero(a) THEN (IF IsZero(b) THEN 0 ELSE -1)
  ELSE IF IsZero(b) THEN 1
  ELSE IF a.exp < b.exp THEN -1
  ELSE IF a.exp > b.exp THEN 1
  ELSE BCmp(a.man, b.man)

FCmp(a, b) ==
  IF a.neg /\ ~b.neg THEN -1
  ELSE IF ~a.neg /\ b.neg THEN 1
  ELSE IF a.neg THEN FCmpAbs(b, a)
  ELSE FCmpAbs(a, b)

FLe(a, b) == FCmp(a, b) <= 0

\* Math.max and Math.min
FMax(a, b) == IF FCmp(a, b) >= 0 THEN a ELSE b
FMin(a, b) == IF FCmp(a, b) <= 0 THEN a ELSE b

(***************************************************************************)
(* utils/stockUtils                                                        *)
(***************************************************************************)
\* terms.reduce((acc, term) => acc + term, 0): the terms added in their order to 0
RECURSIVE Sum(_)
Sum(terms) ==
  IF terms = <<>> THEN FZero
  ELSE FAdd(Sum(SubSeq(terms, 1, Len(terms) - 1)), terms[Len(terms)])

\* calculateAverage without its guard on the empty array
calculateAverageUnguarded(prices) == FDiv(Sum(prices), FromInt(Len(prices)))

calculateAverage(prices) ==
  IF Len(prices) = 0 THEN FZero
  ELSE FDiv(Sum(prices), FromInt(Len(prices)))

\* Math.pow(x, 2), which is x * x
Square(x) == FMul(x, x)

\* prices.map(price => Math.pow(price - avg, 2))
SquareDiffs(prices, avg) == [i \in 1..Len(prices) |-> Square(FSub(prices[i], avg))]

\* the sample form of the standard deviation, which divides by N - 1
calculateStandardDeviationSample(prices) ==
  IF Len(prices) = 0 THEN FZero
  ELSE FSqrt(FDiv(Sum(SquareDiffs(prices, calculateAverage(prices))),
                  FromInt(Len(prices) - 1)))

calculateStandardDeviation(prices) ==
  IF Len(prices) = 0 THEN FZero
  ELSE FSqrt(calculateAverage(SquareDiffs(prices, calculateAverage(prices))))

\* diff1 (diff2) of every turn of the loop of calculateCorrelation: the prices
\* less their average
Deviations(prices, avg) == [i \in 1..Len(prices) |-> FSub(prices[i], avg)]

\* what the loop adds up: 0 plus diff1[i] * diff2[i] of every turn, in order
SumOfProducts(diff1, diff2) == Sum([i \in 1..Len(diff1) |-> FMul(diff1[i], diff2[i])])

Moments(diff1, diff2) ==
  [covariance |-> SumOfProducts(diff1, diff2),
   variance1  |-> SumOfProducts(diff1, diff1),
   variance2  |-> SumOfProducts(diff2, diff2)]

\* Sums with the deviations of both series taken from the average of the first
SumsOneAverage(prices1, prices2) ==
  Moments(Deviations(prices1, calculateAverage(prices1)),
          Deviations(prices2, calculateAverage(prices1)))

\* covariance, variance1 and variance2 after the loop of calculateCorrelation over
\* two series of the same length
Sums(prices1, prices2) ==
  Moments(Deviations(prices1, calculateAverage(prices1)),
          Deviations(prices2, calculateAverage(prices2)))

\* covariance / (Math.sqrt(variance1) * Math.sqrt(variance2))
Quotient(s) == FDiv(s.covariance, FMul(FSqrt(s.variance1), FSqrt(s.variance2)))

\* the return of calculateCorrelation after its loop
Guarded(s) ==
  IF IsZero(s.variance1) \/ IsZero(s.variance2) THEN FZero ELSE Quotient(s)

\* calculateCorrelation cutting both series to the shorter one, as the heatmap
\* does, where the source returns 0 for series of different lengths
calculateCorrelationTruncating(prices1, prices2) ==
  IF Min(Len(prices1), Len(prices2)) = 0 THEN FZero
  ELSE Guarded(Sums(SubSeq(prices1, 1, Min(Len(prices1), Len(prices2))),
                    SubSeq(prices2, 1, Min(Len(prices1), Len(prices2)))))

calculateCorrelation(prices1, prices2) ==
  IF Len(prices1) # Len(prices2) \/ Len(prices1) = 0 THEN FZero
  ELSE Guarded(Sums(prices1, prices2))

(***************************************************************************)
(* The statistics a StockPage renders                                      *)
(***************************************************************************)
\* a.slice(start, end)
Slice(a, start, end) ==
  SubSeq(a,
         (IF start < 0 THEN Max(Len(a) + start, 0) ELSE Min(start, Len(a))) + 1,
         IF end < 0 THEN Max(Len(a) + end, 0) ELSE Min(end, Len(a)))

\* priceChanges after its loop: prices[i] - prices[i - 1] for every i from 1 on
PriceChanges(prices) ==
  [i \in 1..(Len(prices) - 1) |-> FSub(prices[i + 1], prices[i])]

\* the correlation of two slices, with the slices
LagOf(currentChanges, nextChanges) ==
  [taken |-> TRUE, currentChanges |-> currentChanges, nextChanges |-> nextChanges,
   correlation |-> calculateCorrelation(currentChanges, nextChanges)]

\* Lag with the current changes left unsliced
LagUnsliced(priceChanges) ==
  IF Len(priceChanges) > 1
  THEN LagOf(priceChanges, Slice(priceChanges, 1, Len(priceChanges)))
  ELSE [taken |-> FALSE, currentChanges |-> <<>>, nextChanges |-> <<>>,
        correlation |-> FZero]

\* correlation, and the slices of the branch that computes it, in the render
Lag(priceChanges) ==
  IF Len(priceChanges) > 1
  THEN LagOf(Slice(priceChanges, 0, -1), Slice(priceChanges, 1, Len(priceChanges)))
  ELSE [taken |-> FALSE, currentChanges |-> <<>>, nextChanges |-> <<>>,
        correlation |-> FZero]

(***************************************************************************)
(* alignPricesByTimestamp.  A timestamp string is modelled by the time     *)
(* value new Date(timestamp) gives it, in seconds, or by InvalidDate when  *)
(* the string does not parse (time value NaN).  A Map is the sequence of   *)
(* its entries <<key, value>> in insertion order.                          *)
(***************************************************************************)
InvalidDate == -1

\* the outcome of an evaluation: a value, or an exception thrown
Returns(v) == [threw |-> FALSE, value |-> v]
Throws(e) == [threw |-> TRUE, value |-> e]

\* new Date(y, m, d, h, min, 0, 0).toISOString() of the parsed timestamp: the start
\* of its minute; toISOString throws RangeError on an invalid date
roundedTime(timestamp) ==
  IF timestamp = InvalidDate THEN Throws("RangeError")
  ELSE Returns(timestamp - (timestamp % 60))

MapHas(m, k) == \E i \in 1..Len(m) : m[i][1] = k

MapGet(m, k) == m[CHOOSE i \in 1..Len(m) : m[i][1] = k][2]

\* a set that leaves the value of an existing key as it is
MapSetKeepFirst(m, k, v) ==
  IF MapHas(m, k) THEN m ELSE Append(m, <<k, v>>)

\* Map.prototype.set: an existing key keeps its position and takes the new value
MapSet(m, k, v) ==
  IF MapHas(m, k) THEN [i \in 1..Len(m) |-> IF m[i][1] = k THEN <<k, v>> ELSE m[i]]
  ELSE Append(m, <<k, v>>)

\* prices.forEach(item => timeMap.set(roundedTime, item.price)) from item i on
RECURSIVE TimeMapFrom(_, _, _)
TimeMapFrom(prices, i, m) ==
  IF i > Len(prices) THEN Returns(m)
  ELSE LET key == roundedTime(prices[i].timestamp)
       IN  IF key.threw THEN key
           ELSE TimeMapFrom(prices, i + 1, MapSet(m, key.value, prices[i].price))

TimeMap(prices) == TimeMapFrom(prices, 1, <<>>)

\* the loop over the keys of timeMap1 from entry i on
RECURSIVE AlignFrom(_, _, _)
AlignFrom(timeMap1, timeMap2, i) ==
  IF i > Len(timeMap1) THEN <<>>
  ELSE IF MapHas(timeMap2, timeMap1[i][1])
       THEN <<[price1 |-> timeMap1[i][2], price2 |-> MapGet(timeMap2, timeMap1[i][1])]>>
              \o AlignFrom(timeMap1, timeMap2, i + 1)
       ELSE AlignFrom(timeMap1, timeMap2, i + 1)

\* alignPricesByTimestamp pairing by position in place of by minute
alignPricesByPosition(prices1, prices2) ==
  LET timeMap1 == TimeMap(prices1)
      timeMap2 == TimeMap(prices2)
  IN  IF timeMap1.threw THEN timeMap1
      ELSE IF timeMap2.threw THEN timeMap2
      ELSE Returns([i \in 1..Min(Len(timeMap1.value), Len(timeMap2.value)) |->
                      [price1 |-> timeMap1.value[i][2],
                       price2 |-> timeMap2.value[i][2]]])

\* alignPricesByTimestamp with a pair for every minute of the first series, made
\* of its own price twice where the second series lacks the minute
alignPricesFilled(prices1, prices2) ==
  LET timeMap1 == TimeMap(prices1)
      timeMap2 == TimeMap(prices2)
  IN  IF timeMap1.threw THEN timeMap1
      ELSE IF timeMap2.threw THEN timeMap2
      ELSE Returns([i \in 1..Len(timeMap1.value) |->
                      [price1 |-> timeMap1.value[i][2],
                       price2 |-> IF MapHas(timeMap2.value, timeMap1.value[i][1])
                                  THEN MapGet(timeMap2.value, timeMap1.value[i][1])
                                  ELSE timeMap1.value[i][2]]])

alignPricesByTimestamp(prices1, prices2) ==
  LET timeMap1 == TimeMap(prices1)
      timeMap2 == TimeMap(prices2)
  IN  IF timeMap1.threw THEN timeMap1
      ELSE IF timeMap2.threw THEN timeMap2
      ELSE Returns(AlignFrom(timeMap1.value, timeMap2.value, 1))

(***************************************************************************)
(* fetchStockPrices.  The HTTP request ends with a response whose body is  *)
(* an array of samples or a single sample, or it fails: axios rejects on a *)
(* network error, on the timeout and on a status outside 2xx.              *)
(***************************************************************************)
FailureKinds == {"network", "timeout", "status"}

\* the request succeeded with this body: an array of samples or one sample
ArrayResponse(body) == [kind |-> "array", data |-> body]
ObjectResponse(body) == [kind |-> "object", data |-> body]
FailureResponse(kind) == [kind |-> kind, data |-> <<>>]

\* one sample per minute from minutes ago until now, oldest first; random[k] is
\* the price that Math.random gives the k-th of them
generateMockData(ticker, minutes, now, random) ==
  [k \in 1..(minutes + 1) |->
     [ticker |-> ticker, price |-> random[k],
      timestamp |-> now - (minutes - (k - 1)) * 60]]

\* Array.isArray(data) ? data : [data]
ResultOf(resp) == IF resp.kind = "array" THEN resp.data ELSE <<resp.data>>

\* the series fetchStockPrices resolves with
fetchStockPrices(ticker, minutes, resp, now, random) ==
  IF resp.kind \in FailureKinds THEN generateMockData(ticker, minutes, now, random)
  ELSE IF Len(ResultOf(resp)) = 0 THEN <<>>
  ELSE ResultOf(resp)

(***************************************************************************)
(* StockPage.  Its state is the stockData, error and loading of useState;  *)
(* every run of its effect has a closure with the ticker and the time      *)
(* range of that render, its own isMounted and its own interval.           *)
(***************************************************************************)
NoData == "No data available for the selected time range."
Failed == "Failed to load stock data. Using mock data instead."

\* the mock data of the catch block of loadStockData: 30 samples, a minute apart,
\* the last a minute ago; random[k] is the price Math.random gives the k-th
PageMockData(ticker, now, random) ==
  [k \in 1..30 |->
     [ticker |-> IF ticker = "" THEN "AAPL" ELSE ticker, price |-> random[k],
      timestamp |-> now - (30 - (k - 1)) * 60]]

\* loadStockData from its await on without the tests of isMounted
AfterFetchUnguarded(page, isMounted, outcome, mockData) ==
  IF outcome.threw
  THEN [stockData |-> mockData, error |-> Failed, loading |-> FALSE]
  ELSE IF Len(outcome.value) > 0
  THEN [stockData |-> outcome.value, error |-> page.error, loading |-> FALSE]
  ELSE [stockData |-> page.stockData, error |-> NoData, loading |-> FALSE]

\* loadStockData from its await on without the setError of an empty series
AfterFetchSilentEmpty(page, isMounted, outcome, mockData) ==
  IF ~isMounted THEN page
  ELSE IF outcome.threw
  THEN [stockData |-> mockData, error |-> Failed, loading |-> FALSE]
  ELSE IF Len(outcome.value) > 0
  THEN [stockData |-> outcome.value, error |-> page.error, loading |-> FALSE]
  ELSE [stockData |-> page.stockData, error |-> page.error, loading |-> FALSE]

\* loadStockData from its await on without its finally block
AfterFetchNoFinally(page, isMounted, outcome, mockData) ==
  IF ~isMounted THEN page
  ELSE IF outcome.threw
  THEN [stockData |-> mockData, error |-> Failed, loading |-> page.loading]
  ELSE IF Len(outcome.value) > 0
  THEN [stockData |-> outcome.value, error |-> page.error, loading |-> page.loading]
  ELSE [stockData |-> page.stockData, error |-> NoData, loading |-> page.loading]

\* loadStockData from its await on: the state it leaves, given the outcome of
\* the awaited fetchStockPrices and the isMounted of its closure
AfterFetch(page, isMounted, outcome, mockData) ==
  IF ~isMounted THEN page
  ELSE IF outcome.threw
  THEN [stockData |-> mockData, error |-> Failed, loading |-> FALSE]
  ELSE IF Len(outcome.value) > 0
  THEN [stockData |-> outcome.value, error |-> page.error, loading |-> FALSE]
  ELSE [stockData |-> page.stockData, error |-> NoData, loading |-> FALSE]

\* loadStockData up to its await: setLoading(true); setError(null) when mounted
BeforeFetch(page, isMounted) ==
  IF isMounted THEN [stockData |-> page.stockData, error |-> "null", loading |-> TRUE]
  ELSE page

\* what a StockPage renders: a note without a ticker, the spinner while loading
\* without data, the error, and otherwise the view of the statistics
View(ticker, page) ==
  IF ticker = "" THEN "none"
  ELSE IF page.loading /\ Len(page.stockData) = 0 THEN "spinner"
  ELSE IF page.error # "null" THEN "error"
  ELSE "statistics"

\* the cleanup of the last run of the effect: isMounted = false; clearInterval
Cleanup(runs) ==
  [i \in 1..Len(runs) |->
     IF i = Len(runs) THEN [runs[i] EXCEPT !.isMounted = FALSE, !.interval = FALSE]
     ELSE runs[i]]

(***************************************************************************)
(* The matrices.  stockData is an object: keys is Object.keys(stockData),  *)
(* its property names in insertion order, and data maps each key to its    *)
(* series.  An object with number-valued properties is a function on its   *)
(* property names; an assignment to a property adds it when it is absent.  *)
(***************************************************************************)
Range(seq) == {seq[i] : i \in 1..Len(seq)}

\* the property names of the model, in the order of the < of strings
TickerOrder == <<"A", "B", "C">>

\* ticker1 < ticker2 on strings
TickerLess(ticker1, ticker2) ==
  \E i, j \in 1..Len(TickerOrder) :
    i < j /\ TickerOrder[i] = ticker1 /\ TickerOrder[j] = ticker2

\* obj[key] = v
Put(obj, key, v) == [k \in DOMAIN obj \cup {key} |-> IF k = key THEN v ELSE obj[k]]

\* matrix[ticker1] = { [ticker2]: v }: the row made anew by every assignment
SetCellFreshRow(matrix, ticker1, ticker2, v) ==
  [matrix EXCEPT ![ticker1] = [k \in {ticker2} |-> v]]

\* matrix[ticker1][ticker2] = v
SetCell(matrix, ticker1, ticker2, v) ==
  [matrix EXCEPT ![ticker1] = Put(matrix[ticker1], ticker2, v)]

\* tickers.forEach(ticker1 => { matrix[ticker1] = {}; tickers.forEach(ticker2 => ... = 0) })
InitMatrix(tickers) ==
  [ticker1 \in Range(tickers) |-> [ticker2 \in Range(tickers) |-> FZero]]

Prices(series) == [i \in 1..Len(series) |-> series[i].price]

\* calculateCorrelation of the two columns of the aligned prices
AlignedCorrelation(alignedPrices) ==
  IF alignedPrices.threw THEN alignedPrices
  ELSE Returns(calculateCorrelation(
                 [i \in 1..Len(alignedPrices.value) |-> alignedPrices.value[i].price1],
                 [i \in 1..Len(alignedPrices.value) |-> alignedPrices.value[i].price2]))

\* SetPair without the assignment to the mirrored cell
SetPairUpperOnly(matrix, ticker1, ticker2, correlation) ==
  IF correlation.threw THEN correlation
  ELSE Returns(SetCell(matrix, ticker1, ticker2, correlation.value))

\* matrix[ticker1][ticker2] = correlation; matrix[ticker2][ticker1] = correlation,
\* unless computing the correlation threw
SetPair(matrix, ticker1, ticker2, correlation) ==
  IF correlation.threw THEN correlation
  ELSE Returns(SetCell(SetCell(matrix, ticker1, ticker2, correlation.value),
                       ticker2, ticker1, correlation.value))

\* ProcessPair with the self cell computed as every other cell is
ProcessPairSelfComputed(matrix, data, ticker1, ticker2) ==
  IF ticker1 = ticker2 \/ TickerLess(ticker1, ticker2)
  THEN SetPair(matrix, ticker1, ticker2,
               AlignedCorrelation(alignPricesByTimestamp(data[ticker1], data[ticker2])))
  ELSE Returns(matrix)

\* one turn of the inner forEach of processStockData on the matrix so far
ProcessPair(matrix, data, ticker1, ticker2) ==
  IF ticker1 = ticker2 THEN Returns(SetCell(matrix, ticker1, ticker2, FromInt(1)))
  ELSE IF TickerLess(ticker1, ticker2)
  THEN SetPair(matrix, ticker1, ticker2,
               AlignedCorrelation(alignPricesByTimestamp(data[ticker1], data[ticker2])))
  ELSE Returns(matrix)

\* the nested forEach over tickers x tickers, row by row, from turn k on
RECURSIVE ProcessFrom(_, _, _, _)
RECURSIVE ProcessNext(_, _, _, _)
ProcessFrom(matrix, tickers, data, k) ==
  IF k >= Len(tickers) * Len(tickers) THEN Returns(matrix)
  ELSE ProcessNext(ProcessPair(matrix, data, tickers[(k \div Len(tickers)) + 1],
                               tickers[(k % Len(tickers)) + 1]),
                   tickers, data, k)

\* the turns after turn k, which an exception thrown in turn k leaves out
ProcessNext(next, tickers, data, k) ==
  IF next.threw THEN next ELSE ProcessFrom(next.value, tickers, data, k + 1)

processStockData(tickers, data) == ProcessFrom(InitMatrix(tickers), tickers, data, 0)

\* Math.max(-1, Math.min(1, correlation))
Clamp(correlation) == FMax(FromInt(-1), FMin(FromInt(1), correlation))

\* the correlation the heatmap derives from the sums of its loop
HeatmapGuarded(s) ==
  IF FCmp(s.variance1, FZero) > 0 /\ FCmp(s.variance2, FZero) > 0 THEN Quotient(s)
  ELSE FZero

\* the correlation the heatmap computes in place for two price arrays of equal length
HeatmapCorrelation(alignedPrices1, alignedPrices2) ==
  IF Len(alignedPrices1) = 0 THEN FZero
  ELSE Clamp(HeatmapGuarded(Sums(alignedPrices1, alignedPrices2)))

\* matrix[ticker1][ticker2] = correlation; matrix[ticker2][ticker1] = correlation
HeatmapSet(matrix, ticker1, ticker2, correlation) ==
  SetCell(SetCell(matrix, ticker1, ticker2, correlation), ticker2, ticker1, correlation)

\* the prices of two series, both cut to the length of the shorter
HeatmapAligned(prices1, prices2, minLength) ==
  HeatmapCorrelation(SubSeq(prices1, 1, minLength), SubSeq(prices2, 1, minLength))

\* one turn of the inner forEach of the heatmap's useMemo for indices i, j
HeatmapPair(matrix, data, tickers, i, j) ==
  IF i <= j
  THEN HeatmapSet(matrix, tickers[i], tickers[j],
                  HeatmapAligned(Prices(data[tickers[i]]), Prices(data[tickers[j]]),
                                 Min(Len(data[tickers[i]]), Len(data[tickers[j]]))))
  ELSE matrix

RECURSIVE HeatmapFrom(_, _, _, _)
HeatmapFrom(matrix, tickers, data, k) ==
  IF k >= Len(tickers) * Len(tickers) THEN matrix
  ELSE HeatmapFrom(HeatmapPair(matrix, data, tickers, (k \div Len(tickers)) + 1,
                               (k % Len(tickers)) + 1),
                   tickers, data, k + 1)

\* the correlationMatrix memo of CorrelationHeatmap
correlationMatrix(tickers, data) == HeatmapFrom(InitMatrix(tickers), tickers, data, 0)

(***************************************************************************)
(* CorrelationPage.  loadStockData is a callback of the tickers and the    *)
(* time range of a render; a call of it works with those of its render     *)
(* also after its await.                                                   *)
(***************************************************************************)
NoTickerData == "No data available for the selected tickers."

\* fetchAllStocks: the object of the series its calls of fetchStockPrices
\* resolved with, a property per ticker
fetchAllStocks(tickers, series) == [ticker \in Range(tickers) |-> series[ticker]]

\* the tickers of data whose series is not empty, in the order of its properties
ValidTickers(tickers, data) == SelectSeq(tickers, LAMBDA ticker : Len(data[ticker]) > 0)

\* loadStockData of a render with these tickers from its await on: the state it
\* leaves, given the data fetchAllStocks resolved with
AfterFetchAll(board, tickers, data) ==
  [tickers   |-> IF Len(ValidTickers(tickers, data)) # Len(tickers)
                 THEN ValidTickers(tickers, data) ELSE board.tickers,
   error     |-> IF Len(ValidTickers(tickers, data)) # Len(tickers)
                    /\ Len(ValidTickers(tickers, data)) = 0
                 THEN NoTickerData ELSE board.error,
   stockData |-> data,
   loading   |-> FALSE]

\* loadStockData of a render with these tickers up to its await, or to its
\* return when there are no tickers
BeforeFetchAll(board, tickers) ==
  IF Len(tickers) = 0 THEN [board EXCEPT !.stockData = <<>>]
  ELSE [board EXCEPT !.loading = TRUE, !.error = "null"]

\* String.prototype.trim and toUpperCase on the strings typed in the model
Trim(string) ==
  CASE string = " " -> ""
    [] string = " b" -> "b"
    [] OTHER -> string

ToUpperCase(string) ==
  CASE string = "a" -> "A"
    [] string = "b" -> "B"
    [] OTHER -> string

\* handleAddTicker without its test of tickers.includes
handleAddTickerUnchecked(tickers, newTicker) ==
  IF Trim(newTicker) = "" THEN tickers
  ELSE Append(tickers, ToUpperCase(Trim(newTicker)))

\* the tickers after handleAddTicker with newTicker in the text field
handleAddTicker(tickers, newTicker) ==
  IF Trim(newTicker) = "" THEN tickers
  ELSE IF ToUpperCase(Trim(newTicker)) \in Range(tickers) THEN tickers
  ELSE Append(tickers, ToUpperCase(Trim(newTicker)))

\* the tickers after handleRemoveTicker(tickerToRemove)
handleRemoveTicker(tickers, tickerToRemove) ==
  IF Len(tickers) <= 1 THEN tickers
  ELSE SelectSeq(tickers, LAMBDA ticker : ticker # tickerToRemove)

\* a sequence without its i-th element
Without(seq, i) == SubSeq(seq, 1, i - 1) \o SubSeq(seq, i + 1, Len(seq))

(***************************************************************************)
(* Inputs                                                                  *)
(***************************************************************************)
\* the longest series and the longest argument of calculateCorrelation
MaxSeriesLen == 2
MaxLen == 3

Tenth == FDiv(FromInt(1), FromInt(10))

\* the prices of the model: 1 and 0.1, which is no binary fraction
PriceValues == {FromInt(1), Tenth}

\* the samples of the model: two prices at instants of different minutes
Samples ==
  { [price |-> FromInt(1), timestamp |-> 0],
    [price |-> Tenth, timestamp |-> 60] }

\* a sample whose timestamp does not parse
Unparsable == [price |-> FromInt(1), timestamp |-> InvalidDate]

SeqsUpTo(S, n) == UNION {[1..k -> S] : k \in 0..n}

TickerLists ==
  {<<>>} \cup {<<t>> : t \in {"A", "B"}} \cup {<<"A", "B">>, <<"B", "A">>}

matrixVars == <<keys, stockData, processed, result, rendered, heatmap>>
correlationVars == <<xs, ys, called, corr, swapped, corrSwapped>>
statisticsVars == <<values, computed, average, deviation, lag>>
alignVars == <<series1, series2, aligned, alignment>>
fetchVars == <<fetchArgs, fetchNow, response, fetched>>
pageVars == <<routeTicker, pageRange, pageData, pageLoading, pageError,
              effects, inFlight, completed>>
boardVars == <<corrTickers, corrRange, corrData, corrLoading, corrError,
               ranWith, requests, issued, dataOf, added>>

\* the variables outside each part of the model
outsideMatrix ==
  <<correlationVars, statisticsVars, alignVars, fetchVars, pageVars,
    boardVars>>
outsideCorrelation ==
  <<matrixVars, statisticsVars, alignVars, fetchVars, pageVars, boardVars>>
outsideStatistics ==
  <<matrixVars, correlationVars, alignVars, fetchVars, pageVars, boardVars>>
outsideAlign ==
  <<matrixVars, correlationVars, statisticsVars, fetchVars, pageVars,
    boardVars>>
outsideFetch ==
  <<matrixVars, correlationVars, statisticsVars, alignVars, pageVars,
    boardVars>>
outsidePage ==
  <<matrixVars, correlationVars, statisticsVars, alignVars, fetchVars,
    boardVars>>
outsideBoard ==
  <<matrixVars, correlationVars, statisticsVars, alignVars, fetchVars,
    pageVars>>

NoMatrixCall ==
  /\ keys = <<>>
  /\ stockData = <<>>
  /\ processed = FALSE
  /\ result = Returns(<<>>)
  /\ rendered = FALSE
  /\ heatmap = <<>>

NoCorrelationCall ==
  /\ xs = <<>>
  /\ ys = <<>>
  /\ called = FALSE
  /\ corr = FZero
  /\ swapped = FALSE
  /\ corrSwapped = FZero

\* what the render of a StockPage computes from, before it has computed any of it
NoLag == [taken |-> FALSE, currentChanges |-> <<>>, nextChanges |-> <<>>,
          correlation |-> FZero]

NoStatistics ==
  /\ values = <<>>
  /\ computed = {}
  /\ average = FZero
  /\ deviation = FZero
  /\ lag = NoLag

\* the parts of the model a specification leaves out make no step
NoAlignCall ==
  /\ series1 = <<>>
  /\ series2 = <<>>
  /\ aligned = FALSE
  /\ alignment = Returns(<<>>)

\* no HTTP request has ended
NoResponse == [kind |-> "none", data |-> <<>>]

NoFetchCall ==
  /\ fetchArgs = [ticker |-> "", minutes |-> 0]
  /\ fetchNow = 0
  /\ response = NoResponse
  /\ fetched = <<>>

\* no call of loadStockData has come back from its await
NoCompletion == [stale |-> FALSE, outcome |-> "none"]

NoPage ==
  /\ routeTicker = ""
  /\ pageRange = 0
  /\ pageData = <<>>
  /\ pageLoading = FALSE
  /\ pageError = "null"
  /\ effects = <<>>
  /\ inFlight = <<>>
  /\ completed = NoCompletion

\* the effect has not run; no call has set stockData
NotRun == [tickers |-> <<>>, timeRange |-> 0]

NoBoard ==
  /\ corrTickers = <<>>
  /\ corrRange = 0
  /\ corrData = <<>>
  /\ corrLoading = FALSE
  /\ corrError = "null"
  /\ ranWith = NotRun
  /\ requests = <<>>
  /\ issued = 0
  /\ dataOf = NotRun
  /\ added = {}

OutsideMatrixIdle ==
  NoCorrelationCall /\ NoStatistics /\ NoAlignCall /\ NoFetchCall
    /\ NoPage /\ NoBoard
OutsideCorrelationIdle ==
  NoMatrixCall /\ NoStatistics /\ NoAlignCall /\ NoFetchCall /\ NoPage
    /\ NoBoard
OutsideStatisticsIdle ==
  NoMatrixCall /\ NoCorrelationCall /\ NoAlignCall /\ NoFetchCall
    /\ NoPage /\ NoBoard
OutsideAlignIdle ==
  NoMatrixCall /\ NoCorrelationCall /\ NoStatistics /\ NoFetchCall
    /\ NoPage /\ NoBoard
OutsideFetchIdle ==
  NoMatrixCall /\ NoCorrelationCall /\ NoStatistics /\ NoAlignCall
    /\ NoPage /\ NoBoard
OutsidePageIdle ==
  NoMatrixCall /\ NoCorrelationCall /\ NoStatistics /\ NoAlignCall
    /\ NoFetchCall /\ NoBoard
OutsideBoardIdle ==
  NoMatrixCall /\ NoCorrelationCall /\ NoStatistics /\ NoAlignCall
    /\ NoFetchCall /\ NoPage

(***************************************************************************)
(* The matrix of a stockData object, by processStockData and by the        *)
(* heatmap                                                                 *)
(***************************************************************************)
Init ==
  /\ keys \in TickerLists
  /\ stockData \in [Range(keys) -> SeqsUpTo(Samples, MaxSeriesLen)]
  /\ processed = FALSE
  /\ result = Returns(<<>>)
  /\ rendered = FALSE
  /\ heatmap = <<>>
  /\ OutsideMatrixIdle

ProcessStockData ==
  /\ ~processed
  /\ processed' = TRUE
  /\ result' = processStockData(keys, stockData)
  /\ UNCHANGED <<keys, stockData, rendered, heatmap, outsideMatrix>>

RenderHeatmap ==
  /\ ~rendered
  /\ rendered' = TRUE
  /\ heatmap' = correlationMatrix(keys, stockData)
  /\ UNCHANGED <<keys, stockData, processed, result, outsideMatrix>>

Next == ProcessStockData \/ RenderHeatmap

Spec == Init /\ [][Next]_vars

(***************************************************************************)
(* processStockData on series whose timestamps may fail to parse           *)
(***************************************************************************)
InitAnyTimestamp ==
  /\ keys \in TickerLists
  /\ stockData \in [Range(keys) -> SeqsUpTo(Samples \cup {Unparsable}, MaxSeriesLen)]
  /\ processed = FALSE
  /\ result = Returns(<<>>)
  /\ rendered = FALSE
  /\ heatmap = <<>>
  /\ OutsideMatrixIdle

SpecAnyTimestamp == InitAnyTimestamp /\ [][ProcessStockData]_vars

(***************************************************************************)
(* calculateCorrelation on two arrays of prices, called both ways round    *)
(***************************************************************************)
InitCorrelation ==
  /\ OutsideCorrelationIdle
  /\ xs \in SeqsUpTo(PriceValues, MaxLen)
  /\ ys \in SeqsUpTo(PriceValues, MaxLen)
  /\ called = FALSE
  /\ corr = FZero
  /\ swapped = FALSE
  /\ corrSwapped = FZero

Correlate ==
  /\ ~called
  /\ called' = TRUE
  /\ corr' = calculateCorrelation(xs, ys)
  /\ UNCHANGED <<xs, ys, swapped, corrSwapped, outsideCorrelation>>

CorrelateSwapped ==
  /\ ~swapped
  /\ swapped' = TRUE
  /\ corrSwapped' = calculateCorrelation(ys, xs)
  /\ UNCHANGED <<xs, ys, called, corr, outsideCorrelation>>

NextCorrelation == Correlate \/ CorrelateSwapped

SpecCorrelation == InitCorrelation /\ [][NextCorrelation]_vars

(***************************************************************************)
(* calculateCorrelation(xs, ys) for ys a linear image of xs                *)
(***************************************************************************)
Slopes == {-1, 2}
Intercepts == {0, 1}

\* the array of a * x + b for the x of prices
Linear(a, b, prices) ==
  [i \in 1..Len(prices) |-> FAdd(FMul(FromInt(a), prices[i]), FromInt(b))]

InitLinear ==
  /\ OutsideCorrelationIdle
  /\ xs \in SeqsUpTo({FromInt(1), FromInt(2), FromInt(3)}, MaxLen)
  /\ \E a \in Slopes, b \in Intercepts : ys = Linear(a, b, xs)
  /\ called = FALSE
  /\ corr = FZero
  /\ swapped = FALSE
  /\ corrSwapped = FZero

SpecLinear == InitLinear /\ [][Correlate]_vars

(***************************************************************************)
(* The statistics of a StockPage on an array of prices                     *)
(***************************************************************************)
MaxValues == 4

InitStatistics ==
  /\ OutsideStatisticsIdle
  /\ values \in SeqsUpTo(PriceValues, MaxValues)
  /\ computed = {}
  /\ average = FZero
  /\ deviation = FZero
  /\ lag = NoLag

Average ==
  /\ "average" \notin computed
  /\ computed' = computed \cup {"average"}
  /\ average' = calculateAverage(values)
  /\ UNCHANGED <<values, deviation, lag, outsideStatistics>>

StandardDeviation ==
  /\ "deviation" \notin computed
  /\ computed' = computed \cup {"deviation"}
  /\ deviation' = calculateStandardDeviation(values)
  /\ UNCHANGED <<values, average, lag, outsideStatistics>>

Autocorrelation ==
  /\ "lag" \notin computed
  /\ computed' = computed \cup {"lag"}
  /\ lag' = Lag(PriceChanges(values))
  /\ UNCHANGED <<values, average, deviation, outsideStatistics>>

NextStatistics == Average \/ StandardDeviation \/ Autocorrelation

SpecStatistics == InitStatistics /\ [][NextStatistics]_vars

(***************************************************************************)
(* alignPricesByTimestamp on two series                                    *)
(***************************************************************************)
MaxAlignLen == 3

\* three samples of different prices, the first two within one minute
AlignSamples ==
  { [price |-> FromInt(1), timestamp |-> 0],
    [price |-> FromInt(2), timestamp |-> 30],
    [price |-> FromInt(3), timestamp |-> 60] }

InitAlign ==
  /\ OutsideAlignIdle
  /\ series1 \in SeqsUpTo(AlignSamples, MaxAlignLen)
  /\ series2 \in SeqsUpTo(AlignSamples, MaxAlignLen)
  /\ aligned = FALSE
  /\ alignment = Returns(<<>>)

Align ==
  /\ ~aligned
  /\ aligned' = TRUE
  /\ alignment' = alignPricesByTimestamp(series1, series2)
  /\ UNCHANGED <<series1, series2, outsideAlign>>

SpecAlign == InitAlign /\ [][Align]_vars

(***************************************************************************)
(* One call of fetchStockPrices and the end of its HTTP request            *)
(***************************************************************************)
MaxMinutes == 2
MaxBody == 2

Tickers == {"A", "B"}

\* the prices of the samples a response or the mock data may hold
QuotedPrices == {FromInt(100), FromInt(150)}

\* the time of the model at which mock data is generated, in seconds
Now == 600

\* the samples a response may hold for a ticker
ApiSamples(ticker) ==
  {[ticker |-> ticker, price |-> p, timestamp |-> Now] : p \in QuotedPrices}

InitFetch ==
  /\ OutsideFetchIdle
  /\ fetchArgs \in [ticker : Tickers, minutes : 0..MaxMinutes]
  /\ fetchNow = Now
  /\ response = NoResponse
  /\ fetched = <<>>

\* the request succeeds with an array
RespondArray ==
  /\ response.kind = "none"
  /\ \E body \in SeqsUpTo(ApiSamples(fetchArgs.ticker), MaxBody) :
       /\ response' = ArrayResponse(body)
       /\ fetched' = fetchStockPrices(fetchArgs.ticker, fetchArgs.minutes,
                                       ArrayResponse(body), fetchNow, <<>>)
  /\ UNCHANGED <<fetchArgs, fetchNow, outsideFetch>>

\* the request succeeds with a single sample
RespondObject ==
  /\ response.kind = "none"
  /\ \E body \in ApiSamples(fetchArgs.ticker) :
       /\ response' = ObjectResponse(body)
       /\ fetched' = fetchStockPrices(fetchArgs.ticker, fetchArgs.minutes,
                                       ObjectResponse(body), fetchNow, <<>>)
  /\ UNCHANGED <<fetchArgs, fetchNow, outsideFetch>>

\* the request fails and the catch block generates mock data
RespondFailure ==
  /\ response.kind = "none"
  /\ \E kind \in FailureKinds, random \in [1..(fetchArgs.minutes + 1) -> QuotedPrices] :
       /\ response' = FailureResponse(kind)
       /\ fetched' = fetchStockPrices(fetchArgs.ticker, fetchArgs.minutes,
                                       FailureResponse(kind), fetchNow, random)
  /\ UNCHANGED <<fetchArgs, fetchNow, outsideFetch>>

NextFetch == RespondArray \/ RespondObject \/ RespondFailure

SpecFetch == InitFetch /\ [][NextFetch]_vars

(***************************************************************************)
(* A StockPage from its first render on: its effect runs, the ticker of    *)
(* the route and the time range change, the intervals tick and the calls   *)
(* of fetchStockPrices come back in any order                              *)
(***************************************************************************)
MaxEffects == 3
MaxInFlight == 2

\* two of the time ranges of the select, in minutes
PageRanges == {5, 30}

\* the price Math.random gives the mock samples of the page
MockPrices == {FromInt(100)}

\* the prices Math.random gives n samples in a row, here n times the same
RandomRuns(n) == {[k \in 1..n |-> p] : p \in MockPrices}

\* the price of the samples of a response to the page
PagePrices == {FromInt(150)}

\* the samples a response to the page may hold for a ticker
PageSamples(ticker) ==
  {[ticker |-> ticker, price |-> p, timestamp |-> Now] : p \in PagePrices}

\* how the HTTP request of a call for a ticker may end
PageResponses(ticker) ==
  {ArrayResponse(body) : body \in SeqsUpTo(PageSamples(ticker), 1)}
    \cup {ObjectResponse(body) : body \in PageSamples(ticker)}
    \cup {FailureResponse(kind) : kind \in FailureKinds}

\* the series fetchStockPrices(ticker, minutes) may resolve with
Resolutions(ticker, minutes) ==
  {fetchStockPrices(ticker, minutes, resp, Now, random) :
     resp \in PageResponses(ticker), random \in RandomRuns(minutes + 1)}

\* what the await of fetchStockPrices(ticker, minutes) may give: a series it
\* resolves with, or an exception
Outcomes(ticker, minutes) ==
  {Returns(series) : series \in Resolutions(ticker, minutes)} \cup {Throws("Error")}

\* the mock data the catch block of loadStockData may generate: none unless the
\* await threw and the closure is mounted
MockDataFor(ticker, isMounted, outcome) ==
  IF outcome.threw /\ isMounted
  THEN {PageMockData(ticker, Now, random) : random \in RandomRuns(30)}
  ELSE {<<>>}

OutcomeKind(outcome) ==
  IF outcome.threw THEN "throws"
  ELSE IF Len(outcome.value) > 0 THEN "data" ELSE "empty"

Page == [stockData |-> pageData, error |-> pageError, loading |-> pageLoading]

InitPage ==
  /\ OutsidePageIdle
  /\ routeTicker \in {"A", ""}
  /\ pageRange = 30
  /\ pageData = <<>>
  /\ pageLoading = TRUE
  /\ pageError = "null"
  /\ effects = <<>>
  /\ inFlight = <<>>
  /\ completed = NoCompletion

\* the state of the page becomes next
SetPage(next) ==
  /\ pageData' = next.stockData
  /\ pageError' = next.error
  /\ pageLoading' = next.loading

\* the number of calls of loadStockData that await their fetch
RECURSIVE Awaiting(_)
Awaiting(calls) ==
  IF calls = <<>> THEN 0 ELSE calls[1] + Awaiting(Tail(calls))

\* the effect has not run, or not with the ticker and the time range of now
DepsChanged ==
  IF effects = <<>> THEN TRUE
  ELSE \/ effects[Len(effects)].ticker # routeTicker
       \/ effects[Len(effects)].timeRange # pageRange

\* the effect runs after the first render and after a render with another ticker
\* or time range: the cleanup of the run before, then loadStockData() up to its
\* await and setInterval
RunEffect ==
  /\ Len(effects) < MaxEffects /\ Awaiting(inFlight) < MaxInFlight
  /\ DepsChanged
  /\ effects' = Append(Cleanup(effects),
                        [ticker |-> routeTicker, timeRange |-> pageRange,
                         isMounted |-> TRUE, interval |-> TRUE])
  /\ IF routeTicker = ""
     THEN inFlight' = Append(inFlight, 0) /\ UNCHANGED <<pageData, pageError, pageLoading>>
     ELSE inFlight' = Append(inFlight, 1) /\ SetPage(BeforeFetch(Page, TRUE))
  /\ UNCHANGED <<routeTicker, pageRange, completed, outsidePage>>

\* the route changes to another ticker
ChangeTicker ==
  /\ effects # <<>> /\ Len(effects) < MaxEffects
  /\ routeTicker # ""
  /\ \E ticker \in Tickers \ {routeTicker} : routeTicker' = ticker
  /\ UNCHANGED <<pageRange, pageData, pageLoading, pageError, effects, inFlight,
                 completed, outsidePage>>

\* handleTimeRangeChange
ChangeTimeRange ==
  /\ effects # <<>> /\ Len(effects) < MaxEffects
  /\ \E range \in PageRanges \ {pageRange} : pageRange' = range
  /\ UNCHANGED <<routeTicker, pageData, pageLoading, pageError, effects, inFlight,
                 completed, outsidePage>>

\* the interval of a run of the effect fires: loadStockData() up to its await
Tick ==
  \E id \in 1..Len(effects) :
    /\ effects[id].interval
    /\ effects[id].ticker # ""
    /\ Awaiting(inFlight) < MaxInFlight
    /\ inFlight' = [inFlight EXCEPT ![id] = @ + 1]
    /\ SetPage(BeforeFetch(Page, effects[id].isMounted))
    /\ UNCHANGED <<routeTicker, pageRange, effects, completed, outsidePage>>

\* a call of loadStockData comes back from its await and runs to its end
Complete ==
  \E id \in 1..Len(effects) :
    /\ inFlight[id] > 0
    /\ inFlight' = [inFlight EXCEPT ![id] = @ - 1]
    /\ \E outcome \in Outcomes(effects[id].ticker, effects[id].timeRange) :
       \E mockData \in MockDataFor(effects[id].ticker, effects[id].isMounted, outcome) :
         /\ SetPage(AfterFetch(Page, effects[id].isMounted, outcome, mockData))
         /\ completed' = [stale |-> ~effects[id].isMounted,
                          outcome |-> OutcomeKind(outcome)]
    /\ UNCHANGED <<routeTicker, pageRange, effects, outsidePage>>

NextPage == RunEffect \/ ChangeTicker \/ ChangeTimeRange \/ Tick \/ Complete

SpecPage == InitPage /\ [][NextPage]_vars

\* every fetch settles, by its response or by the timeout of its request, and
\* the effect of a render runs
FairPage == WF_vars(Complete) /\ WF_vars(RunEffect)

SpecPageLive == InitPage /\ [][NextPage]_vars /\ FairPage

(***************************************************************************)
(* A CorrelationPage from its first render on: its effect runs, tickers    *)
(* are added and removed, the time range changes, the interval ticks and   *)
(* the calls of fetchAllStocks come back in any order                      *)
(***************************************************************************)
MaxIssued == 2

\* the tickers the page starts with, two in place of the five of the source
DefaultTickers == <<"A", "B">>

\* two of the time ranges of the select, in minutes
BoardRanges == {60, 240}

\* the series fetchStockPrices(ticker, minutes) may resolve with when its HTTP
\* request succeeds with an empty array or with an array of one sample
Answers(ticker, minutes) ==
  {fetchStockPrices(ticker, minutes, ArrayResponse(body), Now, <<>>) :
     body \in {<<>>, <<[ticker |-> ticker, price |-> FromInt(100), timestamp |-> Now]>>}}

Board == [tickers |-> corrTickers, stockData |-> corrData, error |-> corrError,
          loading |-> corrLoading]

Deps == [tickers |-> corrTickers, timeRange |-> corrRange]

InitBoard ==
  /\ OutsideBoardIdle
  /\ corrTickers = DefaultTickers
  /\ corrRange = 60
  /\ corrData = <<>>
  /\ corrLoading = TRUE
  /\ corrError = "null"
  /\ ranWith = NotRun
  /\ requests = <<>>
  /\ issued = 0
  /\ dataOf = NotRun
  /\ added = {}

\* what the text field of the new ticker may hold
Typed == {"", " ", "a", "B", " b"}

\* the state of the page becomes next; a ticker that leaves the list is no
\* longer one the user added
SetBoard(next) ==
  /\ corrTickers' = next.tickers
  /\ added' = added \cap Range(next.tickers)
  /\ corrData' = next.stockData
  /\ corrError' = next.error
  /\ corrLoading' = next.loading

\* a call of the loadStockData of the render with deps, up to its await
Load(deps) ==
  /\ SetBoard(BeforeFetchAll(Board, deps.tickers))
  /\ IF Len(deps.tickers) = 0
     THEN dataOf' = deps /\ UNCHANGED <<requests, issued>>
     ELSE /\ requests' = Append(requests, deps)
          /\ issued' = issued + 1
          /\ UNCHANGED dataOf

\* the effect runs after the first render and after a render with other tickers
\* or another time range: clearInterval, loadStockData(), setInterval
RunBoardEffect ==
  /\ ranWith # Deps
  /\ issued < MaxIssued
  /\ ranWith' = Deps
  /\ Load(Deps)
  /\ UNCHANGED <<corrRange, outsideBoard>>

\* the interval fires: the loadStockData of the render the effect ran for
BoardTick ==
  /\ ranWith # NotRun
  /\ issued < MaxIssued
  /\ Load(ranWith)
  /\ UNCHANGED <<corrRange, ranWith, outsideBoard>>

\* handleTimeRangeChange
ChangeBoardRange ==
  /\ ranWith # NotRun
  /\ \E range \in BoardRanges \ {corrRange} : corrRange' = range
  /\ UNCHANGED <<corrTickers, corrData, corrLoading, corrError, ranWith, requests,
                 issued, dataOf, added, outsideBoard>>

\* handleAddTicker with any of the texts in the field
AddTicker ==
  /\ ranWith # NotRun
  /\ \E newTicker \in Typed :
       /\ corrTickers' = handleAddTicker(corrTickers, newTicker)
       /\ added' = added \cup
                     (Range(handleAddTicker(corrTickers, newTicker)) \ Range(corrTickers))
  /\ UNCHANGED <<corrRange, corrData, corrLoading, corrError, ranWith, requests,
                 issued, dataOf, outsideBoard>>

\* handleRemoveTicker by the delete button of a ticker of the list
RemoveTicker ==
  /\ ranWith # NotRun
  /\ \E tickerToRemove \in Range(corrTickers) :
       /\ corrTickers' = handleRemoveTicker(corrTickers, tickerToRemove)
       /\ added' = added \cap Range(handleRemoveTicker(corrTickers, tickerToRemove))
  /\ UNCHANGED <<corrRange, corrData, corrLoading, corrError, ranWith, requests,
                 issued, dataOf, outsideBoard>>

\* a call of loadStockData comes back from its await and runs to its end
CompleteRequest ==
  \E i \in 1..Len(requests) :
    /\ requests' = Without(requests, i)
    /\ \E series \in [Range(requests[i].tickers) ->
                        UNION {Answers(ticker, requests[i].timeRange) :
                                 ticker \in Range(requests[i].tickers)}] :
         /\ \A ticker \in Range(requests[i].tickers) :
              series[ticker] \in Answers(ticker, requests[i].timeRange)
         /\ SetBoard(AfterFetchAll(Board, requests[i].tickers,
                                   fetchAllStocks(requests[i].tickers, series)))
    /\ dataOf' = requests[i]
    /\ UNCHANGED <<corrRange, ranWith, issued, outsideBoard>>

NextBoard ==
  \/ RunBoardEffect \/ BoardTick \/ ChangeBoardRange \/ AddTicker \/ RemoveTicker
  \/ CompleteRequest

SpecBoard == InitBoard /\ [][NextBoard]_vars

(***************************************************************************)
(* Properties                                                              *)
(***************************************************************************)
\* C1: the matrix processStockData returns and the matrix the heatmap computes
\* both have matrix[a][b] = matrix[b][a] for every two symbols a, b of the input
C1_Symmetric ==
  /\ (processed /\ ~result.threw) =>
       \A a, b \in Range(keys) : result.value[a][b] = result.value[b][a]
  /\ rendered =>
       \A a, b \in Range(keys) : heatmap[a][b] = heatmap[b][a]

\* both builders have run on two symbols whose series correlate, so that the cells
\* set in pairs are not the zeros the matrix starts with
C1_Witness ==
  /\ processed /\ ~result.threw /\ rendered
  /\ keys = <<"B", "A">>
  /\ result.value["A"]["B"] # FZero
  /\ heatmap["A"]["B"] # FZero

\* C2: processStockData returns matrix[a][a] = 1 for every symbol a of the input,
\* whatever the series of a is
C2_DiagonalIsOne ==
  (processed /\ ~result.threw) =>
    \A a \in Range(keys) : result.value[a][a] = FromInt(1)

\* processStockData has run on two symbols, one with an empty series and one with
\* a constant series, which have no minute in common
C2_Witness ==
  /\ processed /\ ~result.threw
  /\ Len(keys) = 2
  /\ stockData["A"] = <<>> /\ Len(stockData["B"]) = 1
  /\ result.value["A"]["A"] = FromInt(1) /\ result.value["B"]["B"] = FromInt(1)

\* C3: in the matrix the heatmap computes, matrix[a][a] = 1 for every ticker a,
\* whatever the series of a is
C3_HeatmapDiagonalIsOne ==
  rendered => \A a \in Range(keys) : heatmap[a][a] = FromInt(1)

\* C4: the matrix of processStockData and the matrix of the heatmap have exactly
\* the input's symbols as rows and, in every row, exactly the input's symbols as cells
C4_RowsAndCells ==
  /\ (processed /\ ~result.threw) =>
       /\ DOMAIN result.value = Range(keys)
       /\ \A a \in Range(keys) : DOMAIN result.value[a] = Range(keys)
  /\ rendered =>
       /\ DOMAIN heatmap = Range(keys)
       /\ \A a \in Range(keys) : DOMAIN heatmap[a] = Range(keys)

\* both builders have run on an input of two symbols
C4_Witness ==
  /\ processed /\ ~result.threw /\ rendered
  /\ Cardinality(Range(keys)) = 2
  /\ Cardinality(DOMAIN result.value) = 2
  /\ Cardinality(DOMAIN heatmap) = 2

\* C5: calculateCorrelation returns r with -1 <= r <= 1
C5_InUnitInterval ==
  called => FLe(FromInt(-1), corr) /\ FLe(corr, FromInt(1))

\* C6: processStockData returns a matrix and throws nothing, also for series whose
\* timestamps do not parse
C6_NeverThrows ==
  processed => ~result.threw

\* C7: calculateCorrelation returns exactly 0 when its arguments differ in length
\* or are both empty
C7_ZeroOnLengthMismatch ==
  (called /\ (Len(xs) # Len(ys) \/ (Len(xs) = 0 /\ Len(ys) = 0))) => corr = FZero

\* calculateCorrelation has returned for two non-constant arrays of different
\* lengths, whose common prefix correlates
C7_Witness ==
  /\ called
  /\ Len(xs) = 2 /\ Len(ys) = 3
  /\ xs[1] # xs[2] /\ ys[1] # ys[2]
  /\ corr = FZero

\* C8: calculateCorrelation(xs, ys) returns exactly 0 when xs is constant or ys is
C8_ZeroOnConstant ==
  (called /\ (\/ \A i, j \in 1..Len(xs) : xs[i] = xs[j]
              \/ \A i, j \in 1..Len(ys) : ys[i] = ys[j])) => corr = FZero

\* C9: calculateCorrelation(xs, ys) = calculateCorrelation(ys, xs) for non-constant
\* xs, ys of equal nonzero length
C9_SymmetricInArguments ==
  (/\ called /\ swapped
   /\ Len(xs) = Len(ys) /\ Len(xs) > 0
   /\ \E i, j \in 1..Len(xs) : xs[i] # xs[j]
   /\ \E i, j \in 1..Len(ys) : ys[i] # ys[j]) => corr = corrSwapped

\* both calls have returned the same nonzero value for two different non-constant
\* arrays of the same length
C9_Witness ==
  /\ called /\ swapped
  /\ Len(xs) = Len(ys) /\ xs # ys
  /\ \E i, j \in 1..Len(xs) : xs[i] # xs[j]
  /\ \E i, j \in 1..Len(ys) : ys[i] # ys[j]
  /\ corr # FZero /\ corr = corrSwapped

\* C10: for non-constant xs and ys[i] = a * xs[i] + b, calculateCorrelation(xs, ys)
\* is 1 when a > 0 and -1 when a < 0
C10_LinearIsUnit ==
  (called /\ \E i, j \in 1..Len(xs) : xs[i] # xs[j]) =>
    \A a \in Slopes, b \in Intercepts :
      ys = Linear(a, b, xs) => corr = FromInt(IF a > 0 THEN 1 ELSE -1)

\* C11: calculateAverage([]) and calculateStandardDeviation([]) return exactly 0
C11_ZeroOnEmpty ==
  values = <<>> =>
    /\ "average" \in computed => average = FZero
    /\ "deviation" \in computed => deviation = FZero

\* both statistics of the empty array have been computed
C11_Witness ==
  /\ values = <<>>
  /\ computed = {"average", "deviation"}
  /\ average = FZero /\ deviation = FZero

\* C12, as it holds: for non-empty v of length N, calculateAverage(v) is sum(v) / N
\* and calculateStandardDeviation(v) is the square root, rounded, of the sum of the
\* (v[i] - calculateAverage(v))^2 divided by N; for a single value x they are x and 0
C12_PopulationForm ==
  Len(values) > 0 =>
    /\ "average" \in computed =>
         /\ average = FDiv(Sum(values), FromInt(Len(values)))
         /\ Len(values) = 1 => average = values[1]
    /\ ("average" \in computed /\ "deviation" \in computed) =>
         /\ deviation =
              FSqrt(FDiv(Sum([i \in 1..Len(values) |->
                                FMul(FSub(values[i], average), FSub(values[i], average))]),
                         FromInt(Len(values))))
         /\ Len(values) = 1 => deviation = FZero

\* mean and standard deviation of three prices that are not all the same
C12_Witness ==
  /\ Len(values) = 3 /\ values[1] # values[3]
  /\ computed = {"average", "deviation"}
  /\ deviation # FZero

\* C12, as stated: the square of calculateStandardDeviation(v) equals the sum of the
\* (v[i] - calculateAverage(v))^2 divided by N
C12_SquareIsVariance ==
  (Len(values) > 0 /\ "average" \in computed /\ "deviation" \in computed) =>
    FMul(deviation, deviation) =
      FDiv(Sum([i \in 1..Len(values) |->
                  FMul(FSub(values[i], average), FSub(values[i], average))]),
           FromInt(Len(values)))

\* C16: the lag-1 correlation of a StockPage is 0 for fewer than 3 prices; otherwise
\* it is calculateCorrelation of the first differences without the last and without
\* the first, two arrays of the same length Len(prices) - 2
C16_LagOne ==
  "lag" \in computed =>
    /\ Len(values) < 3 => lag.correlation = FZero /\ ~lag.taken
    /\ Len(values) >= 3 =>
         /\ lag.taken
         /\ Len(lag.currentChanges) = Len(values) - 2
         /\ Len(lag.nextChanges) = Len(values) - 2
         /\ lag.correlation =
              calculateCorrelation(
                [i \in 1..(Len(values) - 2) |-> FSub(values[i + 1], values[i])],
                [i \in 1..(Len(values) - 2) |-> FSub(values[i + 2], values[i + 1])])

\* the lag-1 correlation of four prices is computed and is not 0
C16_Witness ==
  /\ "lag" \in computed
  /\ Len(values) = 4
  /\ lag.taken /\ lag.correlation # FZero

\* the minute of the i-th sample of a series, and the minutes of a series
Bucket(series, i) == series[i].timestamp - (series[i].timestamp % 60)
Buckets(series) == {Bucket(series, i) : i \in 1..Len(series)}

\* pair k of the result is made of the prices of samples of the minute b
PairOfBucket(k, b) ==
  \E i \in 1..Len(series1), j \in 1..Len(series2) :
    /\ Bucket(series1, i) = b /\ Bucket(series2, j) = b
    /\ alignment.value[k].price1 = series1[i].price
    /\ alignment.value[k].price2 = series2[j].price

FirstOf(series, b) == CHOOSE i \in 1..Len(series) :
  Bucket(series, i) = b /\ \A j \in 1..(i - 1) : Bucket(series, j) # b
LastOf(series, b) == CHOOSE i \in 1..Len(series) :
  Bucket(series, i) = b /\ \A j \in (i + 1)..Len(series) : Bucket(series, j) # b

\* how many shared minutes occur in series1 no later than the minute b does
RankOf(b) ==
  Cardinality({c \in Buckets(series1) \cap Buckets(series2) :
                 FirstOf(series1, c) <= FirstOf(series1, b)})

PositionsAreBuckets ==
  \A a, b \in Range(keys) :
    /\ Len(stockData[a]) = Len(stockData[b])
    /\ \A k \in 1..Len(stockData[a]) : Bucket(stockData[a], k) = Bucket(stockData[b], k)
    /\ Cardinality(Buckets(stockData[a])) = Len(stockData[a])

\* C18: on such an input the heatmap and processStockData have the same value in
\* every off-diagonal cell
C18_SameOffDiagonal ==
  (processed /\ ~result.threw /\ rendered /\ PositionsAreBuckets) =>
    \A a, b \in Range(keys) : a # b => heatmap[a][b] = result.value[a][b]

\* C17: when the HTTP request fails, by a network error, the timeout or an error
\* status, fetchStockPrices gives its caller an empty series
C17_EmptyOnFailure ==
  response.kind \in FailureKinds => fetched = <<>>

\* C19: when a call of loadStockData comes back from its await after the cleanup
\* of its run of the effect, whether the fetch gave data, gave none or threw, the
\* step changes none of stockData, error and loading
C19_StaleCompletionIsInert ==
  [][\A id \in 1..Len(effects) :
       (inFlight'[id] < inFlight[id] /\ ~effects[id].isMounted) =>
         UNCHANGED <<pageData, pageError, pageLoading>>]_vars

\* a call started before a change came back with data after the cleanup, while
\* the call of the run after the change still awaits: the page still loads and
\* has no data
C19_Witness ==
  /\ completed.stale /\ completed.outcome = "data"
  /\ Len(effects) = 2 /\ inFlight = <<0, 1>>
  /\ pageLoading /\ pageData = <<>> /\ pageError = "null"

\* C20: once the effect of the CorrelationPage has run for the tickers and the
\* time range of now and no call of fetchAllStocks is awaited, stockData is what
\* the call for these tickers and this time range set
C20_DataOfCurrentRequest ==
  (ranWith = Deps /\ requests = <<>>) => dataOf = Deps

\* C22: a StockPage with a ticker renders the view of the statistics only with a
\* stockData that is not empty: it is never in a state with stockData empty,
\* loading false and error null
C22_StatisticsHaveData ==
  routeTicker # "" =>
    /\ View(routeTicker, Page) = "statistics" => pageData # <<>>
    /\ ~(pageData = <<>> /\ ~pageLoading /\ pageError = "null")

\* after two changes the statistics are rendered on the data a call of the third
\* run of the effect came back with, while another call still awaits
C22_Witness ==
  /\ routeTicker # ""
  /\ View(routeTicker, Page) = "statistics"
  /\ completed.outcome = "data" /\ ~completed.stale
  /\ Len(effects) = 3 /\ Awaiting(inFlight) = 1

C21_AddedTickerStays ==
  [][\A ticker \in added :
       ticker \notin Range(corrTickers') =>
         \/ requests' = requests
         \/ /\ ticker \in Range(dataOf'.tickers)
            /\ Len(corrData'[ticker]) = 0]_vars

\* C24: the list of tickers of the CorrelationPage never has a ticker twice, and
\* handleRemoveTicker leaves a list of one ticker or none as it is
C24_NoTickerTwice ==
  /\ Cardinality(Range(corrTickers)) = Len(corrTickers)
  /\ Len(corrTickers) <= 1 =>
       \A ticker \in Tickers : handleRemoveTicker(corrTickers, ticker) = corrTickers

\* a ticker was removed and added again after the other one, and the calls for
\* every list have come back with data
C24_Witness ==
  /\ corrTickers = <<"B", "A">>
  /\ added = {"A"}
  /\ requests = <<>> /\ dataOf = Deps

====
